---- MODULE Spec2Model ----
(***************************************************************************)
(* Verification model of the reporting platform:                           *)
(*   - the Snapshot Writer (src/python/snapshot_utils.py),                 *)
(*   - the batch jobs that build a frame and persist it (src/python/*.py), *)
(*   - the HTTP read API (src/backend).                                    *)
(* The warehouse is an external collaborator: each of its operations may   *)
(* succeed or raise, and the model takes both outcomes.                    *)
(***************************************************************************)
EXTENDS Integers, Sequences, FiniteSets, Bags, TLC

(***************************************************************************)
(* Bounds of the model.                                                    *)
(***************************************************************************)
MaxRows == 2
MaxRuns == 2
MaxRequests == 2

Dates == {"d1", "d2"}
Vers  == {"v1", "v2"}

(***************************************************************************)
(* Tables of the warehouse.  A table is absent, or holds a bag of rows.    *)
(* A row carries its snapshot_date, the id of the metric and the payload   *)
(* (ver) computed by the run that produced it.                             *)
(***************************************************************************)
NoTable == [exists |-> FALSE, rows |-> EmptyBag]

TableOfRows(b) == [exists |-> TRUE, rows |-> b]

Row(d, i, v) == [date |-> d, id |-> i, ver |-> v]

\* The rows of bag b whose snapshot_date is d (WHERE snapshot_date = d).
RowsFor(b, d) == [r \in {x \in DOMAIN b : x.date = d} |-> b[r]]

\* The rows of bag b whose snapshot_date is not d.
RowsNotFor(b, d) == [r \in {x \in DOMAIN b : x.date # d} |-> b[r]]

RECURSIVE SeqToBag(_)
SeqToBag(s) == IF s = <<>> THEN EmptyBag
               ELSE SetToBag({Head(s)}) (+) SeqToBag(Tail(s))

(***************************************************************************)
(* Frames (pandas DataFrames handed to the writer).                        *)
(*   kind "ok"     : has a snapshot_date column, n >= 1 rows of one date   *)
(*   kind "nodate" : n >= 1 rows, no snapshot_date column                  *)
(*   kind "empty"  : no rows                                               *)
(***************************************************************************)
NoFrame == [kind |-> "none", date |-> "d1", ver |-> "v1", n |-> 0]

OkFrames == [kind : {"ok"}, date : Dates, ver : Vers, n : 1..MaxRows]

NoDateFrames == {[kind |-> "nodate", date |-> "d1", ver |-> "v1", n |-> 1]}

EmptyFrames == {[kind |-> "empty", date |-> "d1", ver |-> "v1", n |-> 0]}

Frames == OkFrames \cup NoDateFrames \cup EmptyFrames

\* The data rows of a frame, in order.
FrameRows(f) == [i \in 1..f.n |-> Row(f.date, i, f.ver)]

\* len(metrics_df)
FrameLen(f) == f.n

\* A column test that every frame passes.
HasSnapshotDateAlways(f) == TRUE

\* 'snapshot_date' in metrics_df.columns
HasSnapshotDate(f) == f.kind = "ok"

\* metrics_df['snapshot_date'].iloc[0]
SnapshotDateOf(f) == f.date

\* metrics_df.to_csv(path, index=False): a header line, then one line per row.
ToCsv(f) == <<"header">> \o FrameRows(f)

\* LoadJobConfig(skip_leading_rows=1, source_format=CSV)
SkipLeadingRows == 1

\* The rows a CSV load job reads from a file.
CsvRows(csv) == SeqToBag(SubSeq(csv, SkipLeadingRows + 1, Len(csv)))

(***************************************************************************)
(* Warehouse statements issued by the writer, as functions on tables.      *)
(***************************************************************************)
\* A backup statement without the WHERE clause.
BackupQueryNoFilter(t, d) == TableOfRows(t.rows)

\* CREATE OR REPLACE TABLE backup AS SELECT * FROM dest WHERE snapshot_date = d
BackupQuery(t, d) == TableOfRows(RowsFor(t.rows, d))

\* DELETE FROM dest WHERE snapshot_date = d
DeleteQuery(t, d) == [t EXCEPT !.rows = RowsNotFor(t.rows, d)]

\* load_table_from_file(..., write_disposition=WRITE_APPEND)
LoadAppend(t, csv) == TableOfRows(t.rows (+) CsvRows(csv))

\* load_table_from_file into a fresh temporary table
LoadTemp(csv) == TableOfRows(CsvRows(csv))

\* CREATE OR REPLACE TABLE dest AS SELECT * FROM temp
CreateOrReplace(tmp) == TableOfRows(tmp.rows)

(***************************************************************************)
(* The batch scripts that produce a snapshot for a destination table.      *)
(***************************************************************************)
\* Scripts that persist through write_snapshot_to_bigquery.
WriterScripts == {"snapshot_revenue", "snapshot-revenue-metrics",
                  "snapshot-customers", "snapshot-geographic-metrics",
                  "snapshot-health-insruance",
                  "snapshot-plan-and-addon-metrics", "snapshot_requisitions"}

\* Scripts that call client.load_table_from_dataframe themselves.
AppendScripts == {"hardware-addoons", "plans-addons-metrics-snapshot"}

\* monthly-data-collection.py writes only when LOCAL_TEST is False.
LocalTestScripts == {"monthly-data-collection"}

Scripts == WriterScripts \cup AppendScripts \cup LocalTestScripts

\* LOCAL_TEST = True
LOCAL_TEST == TRUE

\* The warehouse queries of a script's data access step, in program order.
Queries(s) ==
    CASE s = "snapshot_revenue" ->
           <<"get_active_contracts", "get_offboarding_contracts",
             "get_companies", "get_revenue_breakdown", "get_all_contracts",
             "get_inactive_contracts", "get_approved_not_started_contracts",
             "get_all_countries", "get_revenue_breakdown_country">>
      [] s = "snapshot-revenue-metrics" ->
           <<"get_active_contracts", "get_offboarding_contracts",
             "get_inactive_contracts", "get_approved_not_started_contracts",
             "get_companies", "get_individual_revenue_metrics",
             "get_revenue_breakdown">>
      [] s = "snapshot-customers" ->
           <<"get_active_contracts", "get_offboarding_contracts",
             "get_companies_with_labels", "get_enabled_users",
             "get_all_contracts", "get_fx_rates",
             "get_individual_revenue_metrics">>
      [] s = "snapshot-geographic-metrics" ->
           <<"get_all_countries", "get_active_contracts",
             "get_offboarding_contracts",
             "get_approved_not_started_contracts", "get_revenue_breakdown">>
      [] s = "snapshot-health-insruance" ->
           <<"insurance_options", "insurance_addons", "contracts">>
      [] s = "snapshot-plan-and-addon-metrics" ->
           <<"addons", "plans", "contracts">>
      [] s = "snapshot_requisitions" ->
           <<"get_fx_rates", "get_all_countries", "get_requisition_metrics">>
      [] s = "hardware-addoons" ->
           <<"addons", "categories", "plans", "active_count",
             "plan_distribution", "device_distribution",
             "country_distribution", "hardware_distribution",
             "software_distribution", "membership_distribution",
             "os_distribution">>
      [] s = "plans-addons-metrics-snapshot" ->
           <<"addons", "categories", "plans", "contracts">>
      [] s = "monthly-data-collection" ->
           <<"companies", "status_mapping", "fx_rates", "contracts">>

\* Scripts whose argument parser defines --dry-run.  The others read no
\* command line at all, so the flag is ignored when it is given.
ParsesDryRun(s) == s \in WriterScripts

\* The dry_run argument the script hands to the writer.
DryRunArg(s, flag) ==
    IF s = "snapshot-customers" THEN FALSE ELSE ParsesDryRun(s) /\ flag

\* The frames a script builds: the requisition frame carries snapshot_month
\* and no snapshot_date column; every other script stamps snapshot_date.
JobFrames(s) == IF s = "snapshot_requisitions" THEN NoDateFrames ELSE OkFrames

\* A data access step that logs the failed query and carries on.
QueryFailedSwallowed(s) == [jpc |-> "queries", exit |-> -1]

\* A failed query raises out of the data access function; nothing catches it
\* but snapshot_requisitions.main, which exits 1.
QueryFailed(s) == [jpc |-> "exited", exit |-> 1]

\* client.load_table_from_dataframe(df, table_id, WRITE_APPEND)
LoadDataframe(t, f) == TableOfRows(t.rows (+) SeqToBag(FrameRows(f)))

\* What the script does when its own load job raises: hardware-addoons and
\* plans-addons-metrics-snapshot log, save a CSV and return normally;
\* monthly-data-collection re-raises.
LoadFailedExit(s) == IF s \in AppendScripts THEN 0 ELSE 1

\* sys.exit(1) when the writer returned False
WriterFailedExit(s) == 1

VARIABLES
    script,      \* the script that owns the destination ("direct": ad-hoc calls)
    dest,        \* the destination table
    backup,      \* the dated backup tables, one per snapshot date
    temp,        \* the temporary table of the bootstrap path
    files,       \* local files written by the running invocation
    jpc,         \* position of the script
    qlog,        \* queries issued by the script, with outcome
    flagDry,     \* --dry-run was given on the command line
    exitCode,    \* exit status of the script (-1 while it runs)
    wpc,         \* position of the writer
    frame,       \* metrics_df
    dryRun,      \* dry_run argument of the writer
    tableExists, \* table_exists local of the writer
    result,      \* return value of the writer: "none", "True", "False"
    opLog,       \* warehouse operations of the write, with outcome
    pre,         \* the tables when the invocation started
    prevOk,      \* the previous invocation wrote this frame and returned True
    runs,        \* invocations started so far
    apc,         \* position of the HTTP request in flight
    req,         \* the request: its route and its X-API-Key header
    resp,        \* status of the response (0: none yet)
    queried,     \* the request's handler ran a warehouse query
    nRequests,   \* requests received so far
    exc,         \* exception raised inside the handler ("none": none)
    body,        \* body of the response
    mpc,         \* position of the metrics computation
    world,       \* what the warehouse holds when the computation starts
    calc         \* the values computed so far

jvars == <<script, jpc, qlog, flagDry, exitCode>>

wvars == <<dest, backup, temp, files, wpc, frame, dryRun,
           tableExists, result, opLog, pre, prevOk, runs>>

avars == <<apc, req, resp, queried, nRequests, exc, body>>

mvars == <<mpc, world, calc>>

vars == <<jvars, wvars, avars, mvars>>

Tables == [dest |-> dest, backup |-> backup, temp |-> temp]

\* The invocation that just ended wrote its frame and returned True.
WroteOk == wpc = "returned" /\ result = "True" /\ ~dryRun

\* A re-run computes the same frame as the run before it.
SameInput(f) == frame = NoFrame \/ f = frame

(***************************************************************************)
(* The Snapshot Writer: write_snapshot_to_bigquery(metrics_df, table_id,   *)
(* schema, dry_run).                                                       *)
(***************************************************************************)
\* Entry of the function: the arguments are bound, nothing has run yet.
\* The temporary table is named after the current time: a new one each call.
WriterEnter(f, dr) ==
    /\ frame' = f
    /\ dryRun' = dr
    /\ wpc' = "validate"
    /\ result' = "none"
    /\ tableExists' = FALSE
    /\ opLog' = <<>>

\* The order of the warehouse steps on each path.
ExistingStepsSwapped == <<"delete", "backup", "append">>

ExistingSteps == <<"backup", "delete", "append">>

BootstrapSteps == <<"load_temp", "create", "drop_temp">>

StepsOfAlwaysExisting(exists) == ExistingSteps

StepsOf(exists) == IF exists THEN ExistingSteps ELSE BootstrapSteps

\* The step that follows step s on its path ("returned" after the last).
StepAfter(s, exists) ==
    LET steps == StepsOf(exists)
        i == CHOOSE k \in 1..Len(steps) : steps[k] = s
    IN IF i < Len(steps) THEN steps[i + 1] ELSE "returned"

\* The except clause of the function: save the frame locally, return False.
ExceptHandler ==
    /\ files' = files \cup {"failed_snapshot_csv"}
    /\ result' = "False"
    /\ wpc' = "returned"

\* return True after the last step of a path
ReturnTrue ==
    /\ result' = "True"
    /\ wpc' = "returned"
    /\ UNCHANGED files

\* after a step that did not raise out: go on, or return True after the last
Proceed(s) ==
    IF StepAfter(s, tableExists) = "returned"
    THEN ReturnTrue
    ELSE /\ wpc' = StepAfter(s, tableExists)
         /\ UNCHANGED <<files, result>>

\* A direct call of the writer with any frame.
WriterCall(f, dr) ==
    /\ script = "direct"
    /\ wpc \in {"idle", "returned"}
    /\ runs < MaxRuns
    /\ SameInput(f)
    /\ runs' = runs + 1
    /\ WriterEnter(f, dr)
    /\ prevOk' = WroteOk
    /\ pre' = [Tables EXCEPT !.temp = NoTable]
    /\ temp' = NoTable
    /\ files' = {}
    /\ UNCHANGED <<dest, backup, jvars, avars, mvars>>

\* Empty frame, or no snapshot_date column: return False.
Validate ==
    /\ wpc = "validate"
    /\ IF FrameLen(frame) = 0 \/ ~HasSnapshotDate(frame)
       THEN /\ result' = "False"
            /\ wpc' = "returned"
       ELSE /\ wpc' = "client"
            /\ UNCHANGED result
    /\ UNCHANGED <<dest, backup, temp, files, frame, dryRun,
                   tableExists, opLog, pre, prevOk, runs, jvars, avars, mvars>>

\* client = bigquery.Client()
CreateClient ==
    /\ wpc = "client"
    /\ \E ok \in BOOLEAN :
         /\ opLog' = Append(opLog, <<"client", ok>>)
         /\ IF ok THEN /\ wpc' = "get_table"
                       /\ UNCHANGED <<files, result>>
                  ELSE ExceptHandler
    /\ UNCHANGED <<dest, backup, temp, frame, dryRun, tableExists,
                   pre, prevOk, runs, jvars, avars, mvars>>

\* The outcomes of client.get_table(table_id): it raises when the table is
\* absent, and may raise for any other reason when it is present.
GetTableOutcomes(t) == IF t.exists THEN {TRUE, FALSE} ELSE {FALSE}

\* The existence check, then the dry-run branch or the choice of the path.
GetTable ==
    /\ wpc = "get_table"
    /\ \E found \in GetTableOutcomes(dest) :
         /\ tableExists' = found
         /\ IF dryRun
            THEN /\ files' = files \cup {"dry_run_csv"}
                 /\ result' = "True"
                 /\ wpc' = "returned"
            ELSE /\ wpc' = StepsOf(found)[1]
                 /\ UNCHANGED <<files, result>>
    /\ UNCHANGED <<dest, backup, temp, frame, dryRun, opLog, pre, prevOk,
                   runs, jvars, avars, mvars>>

\* Bootstrap: write the frame to a temporary CSV and load it into a
\* temporary table.  The CSV is removed on both ways out of the path.
LoadTempTable ==
    /\ wpc = "load_temp"
    /\ \E ok \in BOOLEAN :
         /\ opLog' = Append(opLog, <<"load_temp", ok>>)
         /\ IF ok THEN /\ temp' = LoadTemp(ToCsv(frame))
                       /\ Proceed("load_temp")
                  ELSE /\ ExceptHandler
                       /\ UNCHANGED temp
    /\ UNCHANGED <<dest, backup, frame, dryRun, tableExists, pre, prevOk,
                   runs, jvars, avars, mvars>>

\* Bootstrap: CREATE OR REPLACE TABLE dest AS SELECT * FROM temp.
CreateTable ==
    /\ wpc = "create"
    /\ \E ok \in BOOLEAN :
         /\ opLog' = Append(opLog, <<"create", ok>>)
         /\ IF ok THEN /\ dest' = CreateOrReplace(temp)
                       /\ Proceed("create")
                  ELSE /\ ExceptHandler
                       /\ UNCHANGED dest
    /\ UNCHANGED <<backup, temp, frame, dryRun, tableExists, pre, prevOk,
                   runs, jvars, avars, mvars>>

\* Bootstrap: client.delete_table(temp), remove the CSV, return True.
DropTemp ==
    /\ wpc = "drop_temp"
    /\ \E ok \in BOOLEAN :
         /\ opLog' = Append(opLog, <<"drop_temp", ok>>)
         /\ IF ok THEN /\ temp' = NoTable
                       /\ Proceed("drop_temp")
                  ELSE /\ ExceptHandler
                       /\ UNCHANGED temp
    /\ UNCHANGED <<dest, backup, frame, dryRun, tableExists, pre, prevOk,
                   runs, jvars, avars, mvars>>

\* Existing table: back up the rows of the snapshot date.  A failure is
\* logged ("Backup failed, but continuing") and the function goes on.
Backup ==
    /\ wpc = "backup"
    /\ \E ok \in BOOLEAN :
         /\ opLog' = Append(opLog, <<"backup", ok>>)
         /\ backup' = IF ok
                       THEN [backup EXCEPT ![SnapshotDateOf(frame)] =
                                 BackupQuery(dest, SnapshotDateOf(frame))]
                       ELSE backup
    /\ Proceed("backup")
    /\ UNCHANGED <<dest, temp, frame, dryRun, tableExists, pre, prevOk,
                   runs, jvars, avars, mvars>>

\* Existing table: delete the rows of the snapshot date.  A failure is
\* logged ("Delete operation failed") and the function goes on.
Delete ==
    /\ wpc = "delete"
    /\ \E ok \in BOOLEAN :
         /\ opLog' = Append(opLog, <<"delete", ok>>)
         /\ dest' = IF ok THEN DeleteQuery(dest, SnapshotDateOf(frame))
                          ELSE dest
    /\ Proceed("delete")
    /\ UNCHANGED <<backup, temp, frame, dryRun, tableExists, pre, prevOk,
                   runs, jvars, avars, mvars>>

\* Existing table: write the frame to a temporary CSV and load it with
\* WRITE_APPEND.  The CSV is removed on both ways out.
AppendRows ==
    /\ wpc = "append"
    /\ \E ok \in BOOLEAN :
         /\ opLog' = Append(opLog, <<"append", ok>>)
         /\ IF ok THEN /\ dest' = LoadAppend(dest, ToCsv(frame))
                       /\ Proceed("append")
                  ELSE /\ ExceptHandler
                       /\ UNCHANGED dest
    /\ UNCHANGED <<backup, temp, frame, dryRun, tableExists, pre, prevOk,
                   runs, jvars, avars, mvars>>

(***************************************************************************)
(* The batch scripts.                                                      *)
(***************************************************************************)
\* The process starts; flag says whether --dry-run is on the command line.
JobStart(flag) ==
    /\ script \in Scripts
    /\ jpc \in {"idle", "exited"}
    /\ runs < MaxRuns
    /\ runs' = runs + 1
    /\ jpc' = "queries"
    /\ qlog' = <<>>
    /\ flagDry' = flag
    /\ exitCode' = -1
    /\ prevOk' = WroteOk
    /\ pre' = [Tables EXCEPT !.temp = NoTable]
    /\ temp' = NoTable
    /\ files' = {}
    /\ wpc' = "idle"
    /\ result' = "none"
    /\ opLog' = <<>>
    /\ tableExists' = FALSE
    /\ dryRun' = FALSE
    /\ UNCHANGED <<script, dest, backup, frame, avars, mvars>>

\* The next query of the data access step: it returns, or it raises.
JobQuery ==
    /\ jpc = "queries"
    /\ Len(qlog) < Len(Queries(script))
    /\ \E ok \in BOOLEAN :
         /\ qlog' = Append(qlog, <<Queries(script)[Len(qlog) + 1], ok>>)
         /\ IF ok THEN UNCHANGED <<jpc, exitCode>>
                  ELSE /\ jpc' = QueryFailed(script).jpc
                       /\ exitCode' = QueryFailed(script).exit
    /\ UNCHANGED <<script, flagDry, wvars, avars, mvars>>

QueriesDone == jpc = "queries" /\ Len(qlog) = Len(Queries(script))

\* The script hands its frame to the writer.
JobCallWriter(f) ==
    /\ QueriesDone
    /\ script \in WriterScripts
    /\ ~(script = "snapshot-customers" /\ flagDry)
    /\ SameInput(f)
    /\ WriterEnter(f, DryRunArg(script, flagDry))
    /\ jpc' = "in_writer"
    /\ UNCHANGED <<script, qlog, flagDry, exitCode, dest, backup, temp,
                   files, pre, prevOk, runs, avars, mvars>>

\* snapshot-customers.py --dry-run: a summary and a CSV, no writer call.
JobCustomersDryRun(f) ==
    /\ QueriesDone
    /\ script = "snapshot-customers"
    /\ flagDry
    /\ SameInput(f)
    /\ frame' = f
    /\ files' = files \cup {"job_csv"}
    /\ jpc' = "exited"
    /\ exitCode' = 0
    /\ UNCHANGED <<script, qlog, flagDry, dest, backup, temp, wpc, dryRun,
                   tableExists, result, opLog, pre, prevOk, runs, avars, mvars>>

\* The writer returned: exit 1 on False, else save the CSV and end.
JobAfterWriter ==
    /\ jpc = "in_writer"
    /\ wpc = "returned"
    /\ jpc' = "exited"
    /\ IF result = "False"
       THEN /\ exitCode' = WriterFailedExit(script)
            /\ UNCHANGED files
       ELSE /\ exitCode' = 0
            /\ files' = files \cup {"job_csv"}
    /\ UNCHANGED <<script, qlog, flagDry, dest, backup, temp, wpc, frame,
                   dryRun, tableExists, result, opLog, pre, prevOk, runs,
                   avars, mvars>>

\* hardware-addoons.py and plans-addons-metrics-snapshot.py: append the
\* frame with a load job; on an exception save a CSV, then return normally.
\* monthly-data-collection.py: the same load, skipped under LOCAL_TEST, its
\* exception re-raised; then the CSV.
JobLoadDataframe(f) ==
    /\ QueriesDone
    /\ script \in AppendScripts \cup LocalTestScripts
    /\ SameInput(f)
    /\ frame' = f
    /\ jpc' = "exited"
    /\ IF script \in LocalTestScripts /\ LOCAL_TEST
       THEN /\ files' = files \cup {"job_csv"}
            /\ exitCode' = 0
            /\ UNCHANGED <<dest, opLog>>
       ELSE \E ok \in BOOLEAN :
              /\ opLog' = Append(opLog, <<"load_dataframe", ok>>)
              /\ IF ok
                 THEN /\ dest' = LoadDataframe(dest, f)
                      /\ exitCode' = 0
                      /\ files' = IF script \in LocalTestScripts
                                  THEN files \cup {"job_csv"} ELSE files
                 ELSE /\ exitCode' = LoadFailedExit(script)
                      /\ files' = IF script \in AppendScripts
                                  THEN files \cup {"job_csv"} ELSE files
                      /\ UNCHANGED dest
    /\ UNCHANGED <<script, qlog, flagDry, backup, temp, wpc, dryRun,
                   tableExists, result, pre, prevOk, runs, avars, mvars>>

(***************************************************************************)
(* Initial states: the destination is absent, or holds what earlier runs   *)
(* wrote: for each date nothing, or the rows of one frame.                 *)
(***************************************************************************)
EarlierRows(d) ==
    {EmptyBag} \cup
    {SeqToBag(FrameRows([kind |-> "ok", date |-> d, ver |-> "v1", n |-> k])) :
        k \in 1..MaxRows}

RECURSIVE BagUnionOf(_, _)
BagUnionOf(f, S) == IF S = {} THEN EmptyBag
                    ELSE LET d == CHOOSE x \in S : TRUE
                         IN f[d] (+) BagUnionOf(f, S \ {d})

InitTables ==
    {NoTable} \cup
    {TableOfRows(BagUnionOf(f, Dates)) :
        f \in {g \in [Dates -> UNION {EarlierRows(d) : d \in Dates}] :
                  \A d \in Dates : g[d] \in EarlierRows(d)}}

NoRequest == [router |-> "none", path |-> "none", key |-> "none"]

NoBody == [kind |-> "none"]

\* HTTPException(status_code, detail): the JSON body {"detail": detail}.
HTTPException(detail) == [kind |-> "detail", detail |-> detail]

\* No metrics computation is in progress.
MetricsIdle == mpc = "idle" /\ world = <<>> /\ calc = <<>>

ApiIdle ==
    /\ apc = "idle"
    /\ req = NoRequest
    /\ resp = 0
    /\ queried = FALSE
    /\ nRequests = 0
    /\ exc = "none"
    /\ body = NoBody

JobsIdle ==
    /\ backup = [d \in Dates |-> NoTable]
    /\ temp = NoTable
    /\ files = {}
    /\ jpc = "idle"
    /\ qlog = <<>>
    /\ flagDry = FALSE
    /\ exitCode = -1
    /\ wpc = "idle"
    /\ frame = NoFrame
    /\ dryRun = FALSE
    /\ tableExists = FALSE
    /\ result = "none"
    /\ opLog = <<>>
    /\ pre = [dest |-> dest, backup |-> backup, temp |-> temp]
    /\ prevOk = FALSE
    /\ runs = 0

Init ==
    /\ script \in Scripts \cup {"direct"}
    /\ dest \in InitTables
    /\ MetricsIdle
    /\ JobsIdle
    /\ ApiIdle

Next ==
    \/ \E f \in Frames, dr \in BOOLEAN : WriterCall(f, dr)
    \/ Validate
    \/ CreateClient
    \/ GetTable
    \/ LoadTempTable
    \/ CreateTable
    \/ DropTemp
    \/ Backup
    \/ Delete
    \/ AppendRows
    \/ \E flag \in BOOLEAN : JobStart(flag)
    \/ JobQuery
    \/ \E f \in Frames : JobCallWriter(f) /\ f \in JobFrames(script)
    \/ \E f \in Frames : JobCustomersDryRun(f) /\ f \in JobFrames(script)
    \/ JobAfterWriter
    \/ \E f \in Frames : JobLoadDataframe(f) /\ f \in JobFrames(script)

Spec == Init /\ [][Next]_vars

(***************************************************************************)
(* The HTTP read API (src/backend).                                        *)
(***************************************************************************)
\* API_KEY = os.getenv("API_KEY", <default>): the configured key.
API_KEY == "key"

\* X-API-Key as the request carries it: absent, another string, the key.
HeaderValues == {"none", "other", API_KEY}

\* routers/health_insurance.py is imported and mounted by main.py; its
\* endpoint is taken from the specification (a GET route that requires the
\* header key, like every report route).
HealthInsuranceRoutes == [router : {"health-insurance"}, path : {"latest"}]

\* The GET routes the routers declare.
RouterRoutes ==
    HealthInsuranceRoutes \cup
    [router : {"revenue"},
     path : {"latest", "trend", "subscription-trend", "countries"}]
    \cup [router : {"addons"}, path : {"latest"}]
    \cup [router : {"customers"},
          path : {"latest", "top-customers", "trend", "company-sizes",
                  "industries-by-count", "industries-by-arr"}]
    \cup [router : {"geography"}, path : {"countries", "trend"}]
    \cup [router : {"requisitions"}, path : {"latest", "trend"}]

\* The GET routes main.py declares on the application itself.
AppRoutes == [router : {"app"}, path : {"health", "test_bigquery"}]

\* app.include_router(...): the routers main.py mounts.
MountedRouters == {"revenue", "addons", "health-insurance"}

Served(r) == r \in AppRoutes \/ (r \in RouterRoutes /\ r.router \in MountedRouters)

\* The route declares api_key: str = Depends(verify_api_key).
DependsOnApiKey(r) == r \in RouterRoutes

VerifyApiKeyAllowsMissing(k) == k = "none" \/ k = API_KEY

\* verify_api_key: raise 401 unless the header equals the key.
verify_api_key(k) == k = API_KEY

\* A request arrives: 404 for a route that is not served; the dependency
\* runs first when the route declares it.
ApiReceive(r, k) ==
    /\ apc \in {"idle", "done"}
    /\ nRequests < MaxRequests
    /\ nRequests' = nRequests + 1
    /\ req' = [router |-> r.router, path |-> r.path, key |-> k]
    /\ queried' = FALSE
    /\ exc' = "none"
    /\ body' = IF Served(r) THEN NoBody ELSE HTTPException("Not Found")
    /\ IF ~Served(r)
       THEN apc' = "done" /\ resp' = 404
       ELSE IF DependsOnApiKey(r)
       THEN apc' = "auth" /\ resp' = 0
       ELSE apc' = "handler" /\ resp' = 0
    /\ UNCHANGED <<jvars, wvars, mvars>>

\* The dependency: HTTPException(401) or on to the handler.
ApiAuth ==
    /\ apc = "auth"
    /\ IF verify_api_key(req.key)
       THEN apc' = "handler" /\ resp' = 0 /\ body' = NoBody
       ELSE apc' = "done" /\ resp' = 401
            /\ body' = HTTPException("Invalid API key")
    /\ UNCHANGED <<req, queried, nRequests, exc, jvars, wvars, mvars>>

\* What can be raised inside the try block of a router endpoint: by the
\* query job, or while the rows are reshaped.
HandlerErrors == {"query failed", "reshape failed"}

\* except Exception as e: raise HTTPException(500, f"Database error: {str(e)}")
DatabaseError(e) == HTTPException(<<"Database error: ", e>>)

\* A router endpoint: run the query and reshape the rows; 500 when either
\* raises.
ApiRouterHandler ==
    /\ apc = "handler"
    /\ req.router # "app"
    /\ queried' = TRUE
    /\ \E e \in HandlerErrors \cup {"none"} :
         /\ exc' = e
         /\ resp' = IF e = "none" THEN 200 ELSE 500
         /\ body' = IF e = "none" THEN [kind |-> "data"] ELSE DatabaseError(e)
    /\ apc' = "done"
    /\ UNCHANGED <<req, nRequests, jvars, wvars, mvars>>

\* /health
ApiHealth ==
    /\ apc = "handler"
    /\ req.router = "app"
    /\ req.path = "health"
    /\ resp' = 200
    /\ body' = [kind |-> "status", status |-> "ok"]
    /\ apc' = "done"
    /\ UNCHANGED <<req, queried, nRequests, exc, jvars, wvars, mvars>>

\* /test_bigquery: main.py defines no client, so client.query raises
\* NameError before any query is sent; the except clause returns a body
\* with success False, status 200.
ApiTestBigquery ==
    /\ apc = "handler"
    /\ req.router = "app"
    /\ req.path = "test_bigquery"
    /\ exc' = "name 'client' is not defined"
    /\ resp' = 200
    /\ body' = [kind |-> "test", success |-> FALSE, error |-> exc']
    /\ apc' = "done"
    /\ UNCHANGED <<req, queried, nRequests, jvars, wvars, mvars>>

InitApi ==
    /\ script = "direct"
    /\ dest = NoTable
    /\ MetricsIdle
    /\ JobsIdle
    /\ ApiIdle

NextApi ==
    \/ \E r \in RouterRoutes \cup AppRoutes, k \in HeaderValues : ApiReceive(r, k)
    \/ ApiAuth
    \/ ApiRouterHandler
    \/ ApiHealth
    \/ ApiTestBigquery

SpecApi == InitApi /\ [][NextApi]_vars

(***************************************************************************)
(* Properties of the Snapshot Writer and of the batch scripts (Spec).      *)
(***************************************************************************)
\* The snapshot date of the running invocation.
D == SnapshotDateOf(frame)

NewRows == SeqToBag(FrameRows(frame))

\* Step op is in the log before position k.
LoggedBefore(op, k) == \E j \in 1..(k - 1) : opLog[j][1] = op

Logged(op) == LoggedBefore(op, Len(opLog) + 1)

LoggedOk(op) == \E j \in 1..Len(opLog) : opLog[j] = <<op, TRUE>>

\* --dry-run was given to the script, or dry_run=True to the writer.
DryRequested == \/ script \in Scripts /\ flagDry /\ jpc # "idle"
                \/ script = "direct" /\ dryRun /\ wpc # "idle"

\* A step that writes the frame to the destination raised.
WriteFailed ==
    \E k \in 1..Len(opLog) :
        /\ opLog[k][2] = FALSE
        /\ opLog[k][1] \in {"client", "load_temp", "create", "append",
                            "load_dataframe"}

\* C1: on a destination that already holds rows for D, a non-dry-run write of
\* a non-empty frame for D that returned True leaves exactly the frame's
\* rows for D: nothing of the earlier run, nothing twice.
C1_OverwriteExact ==
    (/\ wpc = "returned" /\ result = "True" /\ ~dryRun
     /\ pre.dest.exists
     /\ RowsFor(pre.dest.rows, D) # EmptyBag)
    => RowsFor(dest.rows, D) = NewRows

\* C2: idempotent overwrite: a run that follows a successful run with the
\* same frame leaves the rows of the snapshot date as that run left them.
C2_Idempotent ==
    (WroteOk /\ prevOk) => RowsFor(dest.rows, D) = RowsFor(pre.dest.rows, D)

\* C3: with dry-run requested (dry_run=True to the writer, --dry-run to a
\* script) no destination, temporary or backup table is created or changed;
\* the rows go to a local file only and the writer returns True for a valid
\* frame.
C3_DryRunNoWrite ==
    DryRequested =>
        /\ Tables = pre
        /\ (wpc = "returned" /\ dryRun /\ frame.kind = "ok") =>
              /\ result = "True"
              /\ files = {"dry_run_csv"}

\* C4: when a write to the destination fails inside a batch script, the
\* frame is saved to a local CSV, the writer (when used) returns False and
\* the process exits with a non-zero status.
C4_WriteFailureExitsNonZero ==
    (script \in Scripts /\ jpc = "exited" /\ WriteFailed)
    => /\ exitCode # 0
       /\ files \cap {"failed_snapshot_csv", "job_csv"} # {}
       /\ script \in WriterScripts => result = "False"

C7_StepOrder ==
    /\ \A k \in 1..Len(opLog) :
         /\ opLog[k][1] = "delete" => LoggedBefore("backup", k)
         /\ opLog[k][1] = "append" => LoggedBefore("delete", k)
         /\ ~LoggedBefore(opLog[k][1], k)
    /\ wpc = "delete" => Logged("backup") /\ ~Logged("delete")
    /\ wpc = "append" => Logged("delete") /\ ~Logged("append")

C7_Witness ==
    /\ wpc = "returned"
    /\ tableExists
    /\ Len(opLog) = 4
    /\ opLog[4] = <<"append", TRUE>>

C9_ValidationRejects ==
    (wpc = "returned" /\ frame.kind \in {"empty", "nodate"})
    => /\ result = "False"
       /\ Tables = pre
       /\ opLog = <<>>

C9_Witness ==
    /\ wpc = "returned"
    /\ frame.kind = "nodate"
    /\ pre.dest.exists
    /\ result = "False"

ReqRoute == [router |-> req.router, path |-> req.path]

HandlerRaised == apc = "done" /\ exc # "none"

\* C11: every exception raised while an endpoint runs or reshapes its
\* warehouse query is answered with status 500 whose detail carries the
\* exception text; no endpoint answers a failed query with a success status.
C11_FailedQueryIs500 ==
    HandlerRaised =>
        /\ resp = 500
        /\ body = DatabaseError(exc)

\* No two rows of table t share (snapshot_date, metric_type, id); the model's
\* id stands for the pair (metric_type, id).
UniqueKey(t) ==
    \A r1, r2 \in DOMAIN t.rows :
        (r1.date = r2.date /\ r1.id = r2.id) => (r1 = r2 /\ t.rows[r1] = 1)

\* C12: after any sequence of batch job runs, repeated runs on the same day
\* included, the destination holds no two rows with the same
\* (snapshot_date, metric_type, id).
C12_NoDuplicateKeys ==
    (script \in Scripts /\ jpc = "exited") => UniqueKey(dest)

(***************************************************************************)
(* The data access step (metrics_utils.py) and the subscription rates of   *)
(* snapshot_revenue.py and monthly-data-collection.py, over a contract     *)
(* book.  Days 1..3 lie in the snapshot month, day 0 in the month before.  *)
(***************************************************************************)
MaxContracts == 2

\* SQL NULL in a boolean or string column.
NULL == "NULL"

\* SQL NULL (pandas NaT) in a date column.
NaT == -1

Unset == "unset"

\* snapshot_date = datetime.now().date()
SnapshotDay == 2

\* Days 1..3 are month 1, day 0 is in month 0, days 4..6 in month 2.
MonthOf(t) == (t + 2) \div 3

\* month_start <= t < next_month; a null timestamp (NaT) compares False.
InSnapshotMonth(t, d) == t # NaT /\ MonthOf(t) = MonthOf(d)

\* lookup_tables.contract_status_mapping: DRAFT has no row.
contract_status_mapping ==
    [st \in {"ACTIVE", "OFFBOARDING", "TERMINATED"} |->
        IF st = "TERMINATED" THEN "Inactive" ELSE "Active"]

\* The two company ids every query excludes by name.
ExcludedCompanyIds == {"d4c82ebb", "b2affbf5"}

\* firestore_exports.companies
companies ==
    {[id |-> "acme", demoCompany |-> "FALSE", has_error |-> "FALSE"],
     [id |-> "newco", demoCompany |-> NULL, has_error |-> NULL],
     [id |-> "demo", demoCompany |-> "TRUE", has_error |-> "FALSE"],
     [id |-> "broken", demoCompany |-> "FALSE", has_error |-> "TRUE"],
     [id |-> "d4c82ebb", demoCompany |-> "FALSE", has_error |-> "FALSE"],
     [id |-> "b2affbf5", demoCompany |-> NULL, has_error |-> "FALSE"]}

\* Contracts that differ in status and start date, of a regular company.
PlainContracts ==
    [status : {"ACTIVE", "OFFBOARDING"}, start : {1, 2, 3, NaT},
     updatedAt : {0}, has_error : {"FALSE"}, companyId : {"acme"}]
    \cup [status : {"TERMINATED"}, start : {1}, updatedAt : {0, 2, NaT},
          has_error : {"FALSE"}, companyId : {"acme"}]
    \cup [status : {"DRAFT"}, start : {1}, updatedAt : {0},
          has_error : {"FALSE"}, companyId : {"acme"}]

\* Contracts with an error flag, of a demo company, of an excluded company,
\* of an error-flagged company, of a company without a row.
FlaggedContracts ==
    [status : {"ACTIVE", "TERMINATED"}, start : {1}, updatedAt : {2},
     has_error : {"TRUE"}, companyId : {"acme"}]
    \cup [status : {"ACTIVE", "TERMINATED"}, start : {1}, updatedAt : {2},
          has_error : {"FALSE", NULL},
          companyId : {"demo", "broken", "d4c82ebb", "ghost", "newco"}]

ContractRows == PlainContracts \cup FlaggedContracts

\* firestore_exports.employee_contracts: contract_id is the position.
Books == UNION {[1..n -> ContractRows] : n \in 0..MaxContracts}

\* LEFT JOIN contract_status_mapping sm ON ec.status = sm.contract_status
mapped_status(c) ==
    IF c.status \in DOMAIN contract_status_mapping
    THEN contract_status_mapping[c.status] ELSE NULL

\* LEFT JOIN companies c ON ec.companyId = c.id: c.demoCompany
demoCompany(c) ==
    IF \E co \in companies : co.id = c.companyId
    THEN (CHOOSE co \in companies : co.id = c.companyId).demoCompany
    ELSE NULL

\* (ec.__has_error__ IS NULL OR ec.__has_error__ = FALSE)
NoErrorFlag(c) == c.has_error = NULL \/ c.has_error = "FALSE"

\* The three conditions every contract query of metrics_utils.py ends with.
CommonFilter(c) ==
    /\ NoErrorFlag(c)
    /\ (demoCompany(c) = NULL \/ demoCompany(c) = "FALSE")
    /\ c.companyId \notin ExcludedCompanyIds

\* ec.role.preferredStartDate <= '{snapshot_date}' (NULL is not true)
StartedBy(c, d) == c.start # NaT /\ c.start <= d

StartsAfter(c, d) == c.start # NaT /\ c.start > d

get_all_contracts(b) == {i \in DOMAIN b : CommonFilter(b[i])}

get_active_contracts_no_date(b, d) ==
    {i \in DOMAIN b : mapped_status(b[i]) = "Active" /\ CommonFilter(b[i])}

get_active_contracts(b, d) ==
    {i \in DOMAIN b : /\ mapped_status(b[i]) = "Active"
                      /\ StartedBy(b[i], d)
                      /\ CommonFilter(b[i])}

get_offboarding_contracts(b, d) ==
    {i \in DOMAIN b : /\ mapped_status(b[i]) = "Active"
                      /\ b[i].status = "OFFBOARDING"
                      /\ StartedBy(b[i], d)
                      /\ CommonFilter(b[i])}

get_inactive_contracts(b) ==
    {i \in DOMAIN b : mapped_status(b[i]) = "Inactive" /\ CommonFilter(b[i])}

get_approved_not_started_contracts(b, d) ==
    {i \in DOMAIN b : /\ mapped_status(b[i]) = "Active"
                      /\ StartsAfter(b[i], d)
                      /\ CommonFilter(b[i])}

\* WHERE demoCompany IS NULL OR demoCompany = FALSE AND id NOT IN (...):
\* AND binds tighter than OR.
get_companies ==
    {co.id : co \in {x \in companies :
        x.demoCompany = NULL
        \/ (x.demoCompany = "FALSE" /\ x.id \notin ExcludedCompanyIds)}}

\* A rate as Python computes it, kept exact: numerator over denominator.
Ratio(n, d) == [num |-> n, den |-> d]

RatEq(a, b) == a.num * b.den = b.num * a.den

\* The literal 0 of the else branches.
Zero == Ratio(0, 1)

\* Python's None where a number is expected.
None == [none |-> TRUE]

\* Nothing computed yet.
NoCalc ==
    [active |-> Unset, offboarding |-> Unset, revenue |-> Unset,
     companies |-> Unset, all |-> Unset, inactive |-> Unset,
     approved |-> Unset, churned |-> Unset, churn_rate |-> Unset,
     retention_rate |-> Unset, monthly |-> Unset]

\* snapshot_revenue.main, line by line.
GetActiveContracts ==
    /\ mpc = "start"
    /\ calc' = [calc EXCEPT
                  !.active = get_active_contracts(world.book,
                                                  world.snapshot_date)]
    /\ mpc' = "active"
    /\ UNCHANGED <<world, jvars, wvars, avars>>

\* get_offboarding_contracts, then
\* pd.concat([active_df, offboarding_df]).drop_duplicates(subset='contract_id')
GetOffboardingContracts ==
    /\ mpc = "active"
    /\ LET off == get_offboarding_contracts(world.book, world.snapshot_date)
       IN calc' = [calc EXCEPT !.offboarding = off,
                               !.revenue = calc.active \cup off]
    /\ mpc' = "offboarding"
    /\ UNCHANGED <<world, jvars, wvars, avars>>

GetCompanies ==
    /\ mpc = "offboarding"
    /\ calc' = [calc EXCEPT !.companies = get_companies]
    /\ mpc' = "companies"
    /\ UNCHANGED <<world, jvars, wvars, avars>>

GetAllContracts ==
    /\ mpc = "companies"
    /\ calc' = [calc EXCEPT !.all = get_all_contracts(world.book)]
    /\ mpc' = "all"
    /\ UNCHANGED <<world, jvars, wvars, avars>>

GetInactiveContracts ==
    /\ mpc = "all"
    /\ calc' = [calc EXCEPT !.inactive = get_inactive_contracts(world.book)]
    /\ mpc' = "inactive"
    /\ UNCHANGED <<world, jvars, wvars, avars>>

GetApprovedNotStarted ==
    /\ mpc = "inactive"
    /\ calc' = [calc EXCEPT
                  !.approved = get_approved_not_started_contracts(
                                   world.book, world.snapshot_date)]
    /\ mpc' = "approved"
    /\ UNCHANGED <<world, jvars, wvars, avars>>

\* churned_df, revenue_contracts_count, retention_rate, churn_rate
SubscriptionRates ==
    /\ mpc = "approved"
    /\ LET churned == {i \in calc.inactive :
                          InSnapshotMonth(world.book[i].updatedAt,
                                          world.snapshot_date)}
           c == Cardinality(churned)
           n == Cardinality(calc.revenue)
       IN calc' = [calc EXCEPT
                     !.churned = churned,
                     !.retention_rate =
                         IF n > 0 THEN Ratio((n - c) * 100, n) ELSE Zero,
                     !.churn_rate =
                         IF n > 0 THEN Ratio(c * 100, n) ELSE Zero]
    /\ mpc' = "rates"
    /\ UNCHANGED <<world, jvars, wvars, avars>>

\* monthly-data-collection.main: its own contract query (error filter
\* only; the merge with companies_df is a left join and drops nothing),
\* the categories, and the rates.
MonthlyDataCollection ==
    /\ mpc = "start"
    /\ LET b == world.book
           d == world.snapshot_date
           contracts_df == {i \in DOMAIN b : NoErrorFlag(b[i])}
           active_df == {i \in contracts_df : mapped_status(b[i]) = "Active"}
           future == {i \in active_df : StartsAfter(b[i], d)}
           offb == {i \in active_df : b[i].status = "OFFBOARDING"} \ future
           current == (active_df \ offb) \ future
           churned == {i \in contracts_df :
                          /\ mapped_status(b[i]) = "Inactive"
                          /\ InSnapshotMonth(b[i].updatedAt, d)}
           c == Cardinality(churned)
           n == Cardinality(current)
       IN calc' = [calc EXCEPT !.monthly =
                     [contracts_df |-> contracts_df,
                      current_active_df |-> current,
                      approved_not_started_df |-> future,
                      offboarding_df |-> offb,
                      churned_df |-> churned,
                      retention_rate |->
                          IF n > 0 THEN Ratio((n - c) * 100, n) ELSE None,
                      churn_rate |->
                          IF n > 0 THEN Ratio(c * 100, n) ELSE None]]
    /\ mpc' = "monthly"
    /\ UNCHANGED <<world, jvars, wvars, avars>>

InitContracts ==
    /\ script = "direct"
    /\ dest = NoTable
    /\ JobsIdle
    /\ ApiIdle
    /\ mpc = "start"
    /\ world \in [book : Books, snapshot_date : {SnapshotDay}]
    /\ calc = NoCalc

NextContracts ==
    \/ GetActiveContracts
    \/ GetOffboardingContracts
    \/ GetCompanies
    \/ GetAllContracts
    \/ GetInactiveContracts
    \/ GetApprovedNotStarted
    \/ SubscriptionRates
    \/ MonthlyDataCollection

SpecContracts == InitContracts /\ [][NextContracts]_vars

(***************************************************************************)
(* Properties of the data access step (SpecContracts).                     *)
(***************************************************************************)
Book == world.book

Today == world.snapshot_date

\* Contracts of the book with mapped status Active that no query excludes
\* as demo or error records.
ActiveMapped ==
    {i \in DOMAIN Book : /\ Book[i].status \in {"ACTIVE", "OFFBOARDING"}
                         /\ Book[i].has_error # "TRUE"
                         /\ demoCompany(Book[i]) # "TRUE"
                         /\ Book[i].companyId \notin ExcludedCompanyIds}

Started == {i \in DOMAIN Book : Book[i].start \in 0..Today}

NotStarted == {i \in DOMAIN Book : Book[i].start > Today}

DataAccessDone == mpc \in {"approved", "rates"}

\* C13 as stated: Active = mapped Active and start_date <= snapshot_date,
\* Approved-not-started = mapped Active and start_date > snapshot_date,
\* Offboarding = mapped Active and raw status OFFBOARDING; Active and
\* Approved-not-started are disjoint.
C13_ContractSets ==
    DataAccessDone =>
        /\ calc.active = ActiveMapped \cap Started
        /\ calc.approved = ActiveMapped \cap NotStarted
        /\ calc.offboarding =
              {i \in ActiveMapped : Book[i].status = "OFFBOARDING"}
        /\ calc.active \cap calc.approved = {}

\* C13 amended: as above, but Offboarding is further restricted to contracts
\* with start_date <= snapshot_date, so that Offboarding is a subset of
\* Active and disjoint from Approved-not-started.
C13_ContractSetsStarted ==
    DataAccessDone =>
        /\ calc.active = ActiveMapped \cap Started
        /\ calc.approved = ActiveMapped \cap NotStarted
        /\ calc.offboarding =
              {i \in ActiveMapped \cap Started : Book[i].status = "OFFBOARDING"}
        /\ calc.active \cap calc.approved = {}
        /\ calc.offboarding \subseteq calc.active

C13_Witness ==
    /\ DataAccessDone
    /\ \E i \in calc.approved : Book[i].status = "OFFBOARDING"
    /\ \E i \in calc.active : Book[i].start = Today

\* Contracts with an error flag, or of a company flagged as demo.
FlaggedContractIds ==
    {i \in DOMAIN Book :
        Book[i].has_error = "TRUE" \/ demoCompany(Book[i]) = "TRUE"}

\* Demo companies and error-flagged company records.
FlaggedCompanyIds ==
    {co.id : co \in {x \in companies :
                        x.demoCompany = "TRUE" \/ x.has_error = "TRUE"}}

\* C14: no contract of a demo company, no demo company and no error-flagged
\* record is in any contract set or company set the batch jobs compute
\* their aggregates from.
C14_NoDemoNoError ==
    /\ mpc = "rates" =>
         /\ (calc.active \cup calc.offboarding \cup calc.revenue \cup calc.all
             \cup calc.inactive \cup calc.approved \cup calc.churned)
               \cap FlaggedContractIds = {}
         /\ calc.companies \cap FlaggedCompanyIds = {}
    /\ mpc = "monthly" =>
         (calc.monthly.current_active_df \cup calc.monthly.offboarding_df
          \cup calc.monthly.approved_not_started_df
          \cup calc.monthly.churned_df) \cap FlaggedContractIds = {}

(***************************************************************************)
(* Currency conversion and the revenue breakdown (metrics_utils.py,        *)
(* snapshot_requisitions.py, snapshot_revenue.py).  Amounts and rates are  *)
(* integers, so the sums and products are exact.                           *)
(***************************************************************************)

MaxFeeRows == 2

\* A missing float cell (a null amount, or the rate of an unmatched merge).
NaN == -1

\* fee_currency_pairs: the seven fee columns in the order of the loop.
fee_cols ==
    <<"eor_fees", "device_fees", "hardware_fees", "software_fees",
      "health_fees", "placement_fees", "finalisation_fees">>

FeeCols == {fee_cols[i] : i \in DOMAIN fee_cols}

\* The same pairing with only the first currency column in use.
fee_currency_pairs_first(fee_col) == fee_cols[1]

\* fee_currency_pairs: the currency column of a fee column; the model names
\* the currency column of eor_fees by "eor_fees", and so on.
fee_currency_pairs(fee_col) == fee_col

\* Rows of dashboard_metrics.fx_rates with target_currency = 'AUD': the
\* later USD rate is the smaller one.
FxRows ==
    { [currency |-> "USD", fx_date |-> 1, rate |-> 3],
      [currency |-> "USD", fx_date |-> 2, rate |-> 2],
      [currency |-> "EUR", fx_date |-> 1, rate |-> 5] }

FxTables == SUBSET FxRows

Currencies == {"USD", "EUR", "GBP", "", NULL}

\* The row of each currency with the smallest fx_date.
latest_fx_earliest(fx_rates_df) ==
    {r \in fx_rates_df :
        \A q \in fx_rates_df : q.currency = r.currency => r.fx_date <= q.fx_date}

\* latest_fx: the row of each currency with the greatest fx_date.
latest_fx(fx_rates_df) ==
    {r \in fx_rates_df :
        \A q \in fx_rates_df : q.currency = r.currency => q.fx_date <= r.fx_date}

\* The left merge on the currency column: the rate of the matching row of
\* latest_fx, a missing cell where no row matches.
merge_rate(fx_rates_df, currency) ==
    LET m == {r \in latest_fx(fx_rates_df) : r.currency = currency}
    IN IF m = {} THEN NaN ELSE (CHOOSE r \in m : TRUE).rate

fillna(x, v) == IF x = NaN THEN v ELSE x

\* A missing rate filled with 0.
fee_rate_zero(rate) == fillna(rate, 0)

\* df['rate'].fillna(1.0)
fee_rate(rate) == fillna(rate, 1)

\* One cell of the column fee_col + '_aud'.
fee_aud(row, fee_col, fx_rates_df) ==
    fillna(row.fees[fee_col], 0)
        * fee_rate(merge_rate(fx_rates_df, row.cur[fee_currency_pairs(fee_col)]))

\* convert_fees_to_aud: every row keeps its columns and gains the seven
\* converted ones.
convert_fees_to_aud(contracts_df, fx_rates_df) ==
    [i \in DOMAIN contracts_df |->
        [fees |-> contracts_df[i].fees,
         cur |-> contracts_df[i].cur,
         createdAt |-> contracts_df[i].createdAt,
         aud |-> [k \in FeeCols |-> fee_aud(contracts_df[i], k, fx_rates_df)]]]

\* Rows of contracts_df after the left merge with fees_df (fees, currency
\* tags, createdAt).
UniformFees(amount, currency, createdAt) ==
    [fees |-> [k \in FeeCols |-> amount],
     cur |-> [k \in FeeCols |-> currency],
     createdAt |-> createdAt]

\* A contract whose fee_col alone is charged in EUR.
OwnCurrency(fee_col) ==
    [UniformFees(1, "USD", SnapshotDay) EXCEPT
        !.fees[fee_col] = 2, !.cur[fee_col] = "EUR"]

\* NaN and NULL cells: a contract with no row in fees_df.
FeeRows ==
    { UniformFees(1, "USD", SnapshotDay),
      UniformFees(1, "USD", 0),
      UniformFees(NaN, NULL, SnapshotDay),
      UniformFees(1, "GBP", SnapshotDay),
      UniformFees(1, "", SnapshotDay) }
    \cup {OwnCurrency(k) : k \in FeeCols}

FeeBooks == UNION {[1..n -> FeeRows] : n \in 0..MaxFeeRows}

\* df[col].sum() over the rows selected by keep.
RECURSIVE SumAud(_, _, _)
SumAud(df, col, keep) ==
    IF df = <<>> THEN 0
    ELSE (IF keep[1] THEN df[1].aud[col] ELSE 0)
             + SumAud(Tail(df), col, Tail(keep))

AllRows(df) == [i \in DOMAIN df |-> TRUE]

\* The mask of the one-time fees: createdAt within the snapshot month.
CreatedInMonth(df, snapshot_date) ==
    [i \in DOMAIN df |-> InSnapshotMonth(df[i].createdAt, snapshot_date)]

\* The summands of total_mrr with the one-time fees added.
RecurringColsAll == FeeCols

\* The summands of total_mrr.
RecurringCols ==
    {"eor_fees", "device_fees", "hardware_fees", "software_fees",
     "health_fees"}

AddonCols ==
    {"device_fees", "hardware_fees", "software_fees", "health_fees"}

RECURSIVE SumOver(_, _)
SumOver(f, S) ==
    IF S = {} THEN 0
    ELSE LET k == CHOOSE k \in S : TRUE IN f[k] + SumOver(f, S \ {k})

\* The dict returned for an empty frame: literal Python floats.
EmptyBreakdown ==
    [mrr |-> [k \in FeeCols |-> 0],
     total_mrr |-> 0, total_arr |-> 0, one_time_fees |-> 0,
     placement_fees |-> 0, finalisation_fees |-> 0,
     total_monthly_revenue |-> 0, addon_percentage |-> Zero,
     literal |-> TRUE]

\* get_revenue_breakdown after the conversion: df is the converted frame.
\* mrr[k] is the dict's k + '_mrr' for a recurring k; literal tells the
\* literal Python floats of the empty case from the numpy sums.
get_revenue_breakdown(df, snapshot_date) ==
    IF df = <<>> THEN EmptyBreakdown
    ELSE
    LET mask == CreatedInMonth(df, snapshot_date)
        mrr == [k \in FeeCols |-> SumAud(df, k, AllRows(df))]
        placement_fees == SumAud(df, "placement_fees", mask)
        finalisation_fees == SumAud(df, "finalisation_fees", mask)
        total_mrr == SumOver(mrr, RecurringCols)
        one_time_fees == placement_fees + finalisation_fees
        addon_mrr == SumOver(mrr, AddonCols)
    IN [mrr |-> mrr,
        total_mrr |-> total_mrr,
        total_arr |-> total_mrr * 12,
        one_time_fees |-> one_time_fees,
        placement_fees |-> placement_fees,
        finalisation_fees |-> finalisation_fees,
        total_monthly_revenue |-> total_mrr + one_time_fees,
        addon_percentage |->
            IF total_mrr > 0 THEN Ratio(addon_mrr * 100, total_mrr) ELSE Zero,
        literal |-> FALSE]

\* snapshot_requisitions.get_fx_rate with the oldest matching row.
get_fx_rate_oldest(currency, fx_rates_df) ==
    IF currency = NULL \/ currency = "" THEN 1
    ELSE LET matching_rates == {r \in fx_rates_df : r.currency = currency}
         IN IF matching_rates = {} THEN 1
            ELSE (CHOOSE r \in matching_rates :
                     \A q \in matching_rates : r.fx_date <= q.fx_date).rate

\* snapshot_requisitions.get_fx_rate
get_fx_rate(currency, fx_rates_df) ==
    IF currency = NULL \/ currency = "" THEN 1
    ELSE LET matching_rates == {r \in fx_rates_df : r.currency = currency}
         IN IF matching_rates = {} THEN 1
            ELSE (CHOOSE r \in matching_rates :
                     \A q \in matching_rates : q.fx_date <= r.fx_date).rate

\* snapshot_requisitions.convert_to_aud
convert_to_aud(amount, currency, fx_rates_df) ==
    IF amount = NaN THEN 0 ELSE amount * get_fx_rate(currency, fx_rates_df)

\* Nothing computed yet.
NoFxCalc ==
    [df |-> Unset, revenue_breakdown |-> Unset, derived |-> Unset,
     pricing |-> Unset, error |-> "none"]

\* 0.0 / 0.0 of two numpy floats.
NaNRatio == Ratio(0, 0)

\* get_revenue_breakdown(revenue_contracts_df, snapshot_date), the
\* conversion included; an empty frame returns before it.
GetRevenueBreakdown ==
    /\ mpc = "start"
    /\ LET df == convert_fees_to_aud(world.contracts_df, world.fx_rates_df)
       IN calc' = [calc EXCEPT
                     !.df = df,
                     !.revenue_breakdown =
                         get_revenue_breakdown(df, world.snapshot_date)]
    /\ mpc' = "breakdown"
    /\ UNCHANGED <<world, jvars, wvars, avars>>

\* snapshot_revenue.main from the counts to global_metrics: the guarded
\* ratios, then the shares of total_mrr, which are divided without a
\* guard.  Two literal zeros raise ZeroDivisionError; two numpy zeros give
\* NaN.
RevenueMetrics ==
    /\ mpc = "breakdown"
    /\ LET rb == calc.revenue_breakdown
           n == Len(world.contracts_df)
           tmr == rb.total_monthly_revenue
           guarded ==
             [avg_subscription_value |->
                 IF n > 0 THEN Ratio(rb.total_mrr, n) ELSE Zero,
              recurring_revenue_percentage |->
                 IF tmr > 0 THEN Ratio(rb.total_mrr * 100, tmr) ELSE Zero,
              one_time_revenue_percentage |->
                 IF tmr > 0 THEN Ratio((tmr - rb.total_mrr) * 100, tmr)
                 ELSE Zero,
              one_time_fees_percentage |->
                 IF tmr > 0 THEN Ratio(rb.one_time_fees * 100, tmr) ELSE Zero,
              addon_percentage |-> rb.addon_percentage]
       IN IF rb.total_mrr = 0 /\ rb.literal
          THEN /\ calc' = [calc EXCEPT !.error = "ZeroDivisionError"]
               /\ mpc' = "crashed"
          ELSE /\ calc' = [calc EXCEPT !.derived =
                     [guarded |-> guarded,
                      mrr_by_type |->
                         [k \in RecurringCols |->
                            IF rb.total_mrr = 0 THEN NaNRatio
                            ELSE Ratio(rb.mrr[k] * 100, rb.total_mrr)]]]
               /\ mpc' = "derived"
    /\ UNCHANGED <<world, jvars, wvars, avars>>

PricingCols == {"plan", "hardware", "software", "membership"}

\* The assumed salary of the placement fee, in USD.
AssumedSalary == 50000

\* snapshot_requisitions.process_pricing_data for one row with one APPROVED
\* item: the plan amount and its currency vary, the other three components
\* are 1 USD each, the recruitment fee is 10 percent.
ProcessPricingData ==
    /\ mpc = "start"
    /\ \E amount \in {NaN, 2}, currency \in Currencies :
         LET item == [amount |-> [c \in PricingCols |->
                                     IF c = "plan" THEN amount ELSE 1],
                      currency |-> [c \in PricingCols |->
                                     IF c = "plan" THEN currency ELSE "USD"],
                      recruitment_fee_pct |-> 10]
             aud == [c \in PricingCols |->
                        convert_to_aud(item.amount[c], item.currency[c],
                                       world.fx_rates_df)]
             mrr_aud == SumOver(aud, PricingCols)
             salary_aud == AssumedSalary * get_fx_rate("USD", world.fx_rates_df)
         IN calc' = [calc EXCEPT !.pricing =
                       [item |-> item, aud |-> aud, mrr_aud |-> mrr_aud,
                        arr_aud |-> mrr_aud * 12,
                        placement_fees_aud |->
                            Ratio(item.recruitment_fee_pct * salary_aud, 100)]]
    /\ mpc' = "pricing"
    /\ UNCHANGED <<world, jvars, wvars, avars>>

InitFx ==
    /\ script = "direct"
    /\ dest = NoTable
    /\ JobsIdle
    /\ ApiIdle
    /\ mpc = "start"
    /\ world \in [contracts_df : FeeBooks, fx_rates_df : FxTables,
                  snapshot_date : {SnapshotDay}]
    /\ calc = NoFxCalc

NextFx ==
    \/ GetRevenueBreakdown
    \/ RevenueMetrics
    \/ ProcessPricingData

SpecFx == InitFx /\ [][NextFx]_vars

(***************************************************************************)
(* Properties of the conversion and the aggregation (SpecFx).              *)
(***************************************************************************)

Fx == world.fx_rates_df

HasRate(currency) == \E r \in Fx : r.currency = currency

\* r is the row of its currency with the greatest as-of date.
GreatestDate(r) ==
    r \in Fx /\ \A q \in Fx : q.currency = r.currency => q.fx_date <= r.fx_date

AmountOrZero(a) == IF a = NaN THEN 0 ELSE a

Converted == mpc = "breakdown" /\ world.contracts_df # <<>>

Priced == mpc = "pricing"

C16_MissingRateIsOne ==
    /\ Converted =>
         /\ calc.error = "none"
         /\ \A i \in DOMAIN calc.df : \A k \in FeeCols :
              ~HasRate(calc.df[i].cur[k]) =>
                 calc.df[i].aud[k] = AmountOrZero(calc.df[i].fees[k])
    /\ Priced =>
         /\ calc.error = "none"
         /\ \A c \in PricingCols :
              ~HasRate(calc.pricing.item.currency[c]) =>
                 calc.pricing.aud[c] =
                     AmountOrZero(calc.pricing.item.amount[c])

\* A non-empty rate set without GBP, and a frame with a GBP amount and an
\* amount with an empty tag, both unchanged by the conversion.
C16_Witness ==
    /\ Converted
    /\ Fx # {}
    /\ \E i, j \in DOMAIN calc.df :
         /\ calc.df[i].cur["eor_fees"] = "GBP"
         /\ calc.df[i].fees["eor_fees"] = 1
         /\ calc.df[i].aud["eor_fees"] = 1
         /\ calc.df[j].cur["eor_fees"] = ""
         /\ calc.df[j].aud["eor_fees"] = 1

\* The rate resolved for a currency tag: the latest row's, else 1.
ResolvedRates(currency) ==
    IF HasRate(currency)
    THEN {r.rate : r \in {q \in Fx : q.currency = currency /\ GreatestDate(q)}}
    ELSE {1}

\* C17: every converted amount is the category's amount (null as 0) times
\* the rate resolved for that category's own currency tag, and the
\* conversion returns one row per input contract.
C17_OwnCurrencyPerCategory ==
    Converted =>
      /\ Len(calc.df) = Len(world.contracts_df)
      /\ \A i \in DOMAIN calc.df :
           /\ calc.df[i].fees = world.contracts_df[i].fees
           /\ calc.df[i].cur = world.contracts_df[i].cur
           /\ \A k \in FeeCols :
                \E rate \in ResolvedRates(world.contracts_df[i].cur[k]) :
                  calc.df[i].aud[k] =
                      AmountOrZero(world.contracts_df[i].fees[k]) * rate

\* A contract whose device fee is in EUR and whose other fees are in USD,
\* with rates for both: 2 EUR at 5 and 1 USD at 2.
C17_Witness ==
    /\ Converted
    /\ HasRate("EUR")
    /\ Cardinality({r \in Fx : r.currency = "USD"}) = 2
    /\ \E i \in DOMAIN calc.df :
         /\ world.contracts_df[i] = OwnCurrency("device_fees")
         /\ calc.df[i].aud["device_fees"] = 10
         /\ calc.df[i].aud["eor_fees"] = 2

RECURSIVE SumRows(_, _)
SumRows(df, k) ==
    IF df = <<>> THEN 0 ELSE df[1].aud[k] + SumRows(Tail(df), k)

Aggregated == mpc = "breakdown"

\* C18: total_arr is total_mrr times 12, and total_mrr is the sum of the
\* converted base, device, hardware, software and health fees, without the
\* placement and finalisation fees.
C18_ArrIsTwelveMrr ==
    Aggregated =>
      /\ calc.revenue_breakdown.total_arr
             = calc.revenue_breakdown.total_mrr * 12
      /\ calc.revenue_breakdown.total_mrr
             = SumRows(calc.df, "eor_fees") + SumRows(calc.df, "device_fees")
               + SumRows(calc.df, "hardware_fees")
               + SumRows(calc.df, "software_fees")
               + SumRows(calc.df, "health_fees")

\* Two contracts with recurring and one-time fees in the snapshot month.
C18_Witness ==
    /\ Aggregated
    /\ Len(calc.df) = 2
    /\ calc.revenue_breakdown.one_time_fees > 0
    /\ calc.revenue_breakdown.total_mrr > 0
    /\ calc.revenue_breakdown.total_arr = 12 * calc.revenue_breakdown.total_mrr

MetricsComputed == mpc \in {"derived", "crashed"}

IsZero(r) == r.den # 0 /\ r.num = 0

\* C19: for an empty contract set the job raises no exception, and every
\* derived percentage and ratio it computes is 0, none of them NaN.
C19_EmptySetAllZero ==
    (MetricsComputed /\ world.contracts_df = <<>>) =>
      /\ calc.error = "none"
      /\ \A f \in DOMAIN calc.derived.guarded : IsZero(calc.derived.guarded[f])
      /\ \A k \in RecurringCols : IsZero(calc.derived.mrr_by_type[k])

IsNumber(r) == DOMAIN r = {"num", "den"}

\* churn = churned / population * 100 and retention = 100 - churn, both 0
\* for an empty population.
RatesOf(churn_rate, retention_rate, churned, population) ==
    IF population = 0
    THEN /\ IsNumber(churn_rate) /\ IsNumber(retention_rate)
         /\ IsZero(churn_rate) /\ IsZero(retention_rate)
    ELSE /\ RatEq(churn_rate, Ratio(churned * 100, population))
         /\ RatEq(retention_rate,
                  Ratio(100 * population - 100 * churned, population))

\* C20: in both scripts churn_rate is the number of contracts that became
\* Inactive within the snapshot month over the script's active population,
\* times 100, retention_rate is 100 minus it, and both are 0 when that
\* population is empty.
C20_ChurnAndRetention ==
    /\ mpc = "rates" =>
         RatesOf(calc.churn_rate, calc.retention_rate,
                 Cardinality(calc.churned), Cardinality(calc.revenue))
    /\ mpc = "monthly" =>
         RatesOf(calc.monthly.churn_rate, calc.monthly.retention_rate,
                 Cardinality(calc.monthly.churned_df),
                 Cardinality(calc.monthly.current_active_df))

(***************************************************************************)
(* The gap between delete and append, and the rows of the other dates      *)
(* (Spec).                                                                 *)
(***************************************************************************)

\* The running invocation got past the validation of its frame.
Writing == wpc \notin {"idle", "validate"} /\ frame.kind = "ok"

\* The delete of this invocation succeeded and its append has not.
AfterDeleteBeforeAppend ==
    /\ Writing
    /\ LoggedOk("delete")
    /\ ~LoggedOk("append")
    /\ wpc \in {"append", "returned"}

\* The destination existed without rows for D when the invocation began.
GapAtStart ==
    Writing /\ pre.dest.exists /\ RowsFor(pre.dest.rows, D) = EmptyBag

\* C23 (gap): between a successful delete and the completion of the append,
\* and after an append that failed, the destination holds no rows for D and
\* the rows of the other dates are those it held before.
C23_GapAfterDelete ==
    AfterDeleteBeforeAppend =>
      /\ RowsFor(dest.rows, D) = EmptyBag
      /\ RowsNotFor(dest.rows, D) = RowsNotFor(pre.dest.rows, D)

\* C23 (recovery): a run that starts on the gap and returns True leaves
\* the rows of its frame for D.
C23_SuccessFillsGap ==
    (GapAtStart /\ WroteOk) => RowsFor(dest.rows, D) = NewRows

\* C23: the gap, its persistence until a run for the date returns True,
\* and the recovery by that run.
C23_GapUntilSuccess ==
    /\ C23_GapAfterDelete
    /\ C23_SuccessFillsGap
    /\ (GapAtStart /\ wpc = "returned" /\ result = "False") =>
          RowsFor(dest.rows, D) = EmptyBag

\* C24: an invocation for D leaves the rows of every other date as they
\* were when it began, whatever the outcome of its steps.
C24_OtherDatesUntouched ==
    Writing => RowsNotFor(dest.rows, D) = RowsNotFor(pre.dest.rows, D)

(***************************************************************************)
(* The revenue snapshot and the geographic snapshot over a book of         *)
(* contracts with fees and countries, in successive months                 *)
(* (snapshot_revenue.py, snapshot-geographic-metrics.py).  The first       *)
(* snapshot is taken on SnapshotDay, each later one three days (one month  *)
(* of the model) after the one before.                                     *)
(***************************************************************************)

MaxMonths == 2

\* firestore_exports.countries: the codes get_all_countries returns.
all_countries == {"AU", "PH"}

\* Contracts of a regular company with 1 USD in every fee category: started
\* or starting next month, created last month or this month, in a listed
\* country or with no country.
RevenueRows ==
    {[status |-> st, start |-> s, updatedAt |-> 0, has_error |-> "FALSE",
      companyId |-> "acme", country |-> co, createdAt |-> cr,
      fees |-> [k \in FeeCols |-> 1], cur |-> [k \in FeeCols |-> "USD"]] :
        st \in {"ACTIVE", "OFFBOARDING"}, s \in {1, 5}, cr \in {0, 1},
        co \in all_countries \cup {NULL}}

\* The rows of book b with the ids of S, in the order of the book.
RECURSIVE FrameOf(_, _)
FrameOf(b, S) ==
    IF S = {} THEN <<>>
    ELSE LET i == CHOOSE x \in S : \A y \in S : x <= y
         IN <<b[i]>> \o FrameOf(b, S \ {i})

\* get_revenue_breakdown on the contracts S of the book, conversion
\* included.
RevenueOf(b, S, fx_rates_df, d) ==
    get_revenue_breakdown(convert_fees_to_aud(FrameOf(b, S), fx_rates_df), d)

\* snapshot_revenue.main: the revenue contracts, their breakdown, and the
\* revenue_by_country rows.  one_time_ids are the rows the creation mask
\* selects.
SnapshotRevenue ==
    /\ mpc = "start"
    /\ Len(calc.history) < MaxMonths
    /\ LET b == world.book
           d == world.snapshot_date
           active_df == get_active_contracts(b, d)
           revenue_contracts_df ==
               active_df \cup get_offboarding_contracts(b, d)
           revenue_breakdown ==
               RevenueOf(b, revenue_contracts_df, world.fx_rates_df, d)
           snapshot ==
             [snapshot_date |-> d,
              revenue_contracts_df |-> revenue_contracts_df,
              one_time_ids |-> {i \in revenue_contracts_df :
                                   InSnapshotMonth(b[i].createdAt, d)},
              revenue_breakdown |-> revenue_breakdown,
              revenue_by_country |->
                [c \in all_countries |->
                  LET data == RevenueOf(b, {i \in revenue_contracts_df :
                                               b[i].country = c},
                                        world.fx_rates_df, d)
                  IN [count |-> Cardinality({i \in active_df :
                                                b[i].country = c}),
                      value_aud |-> data.total_mrr,
                      percentage |->
                         IF revenue_breakdown.total_mrr > 0
                         THEN Ratio(data.total_mrr * 100,
                                    revenue_breakdown.total_mrr)
                         ELSE Zero]]]
       IN calc' = [calc EXCEPT !.history = Append(calc.history, snapshot)]
    /\ mpc' = "revenue"
    /\ UNCHANGED <<world, jvars, wvars, avars>>

\* snapshot-geographic-metrics.py: per listed country the two counts and
\* the revenue of the de-duplicated active and offboarding contracts.
SnapshotGeographic ==
    /\ mpc = "start"
    /\ calc.geographic = Unset
    /\ LET b == world.book
           d == world.snapshot_date
           active_contracts == get_active_contracts(b, d)
           offboarding_contracts == get_offboarding_contracts(b, d)
       IN calc' = [calc EXCEPT !.geographic =
            [c \in all_countries |->
              LET country_active == {i \in active_contracts : b[i].country = c}
                  country_offboarding ==
                      {i \in offboarding_contracts : b[i].country = c}
                  revenue_contracts == country_active \cup country_offboarding
                  revenue == RevenueOf(b, revenue_contracts,
                                       world.fx_rates_df, d)
              IN [revenue_contracts |-> revenue_contracts,
                  count |-> Cardinality(country_active)
                            + Cardinality(country_offboarding),
                  mrr_aud |-> revenue.total_mrr,
                  arr_aud |-> revenue.total_arr]]]
    /\ mpc' = "geographic"
    /\ UNCHANGED <<world, jvars, wvars, avars>>

\* A month passes before the job runs again.
NextMonth ==
    /\ mpc = "revenue"
    /\ Len(calc.history) < MaxMonths
    /\ world' = [world EXCEPT !.snapshot_date = @ + 3]
    /\ mpc' = "start"
    /\ UNCHANGED <<calc, jvars, wvars, avars>>

InitRevenue ==
    /\ script = "direct"
    /\ dest = NoTable
    /\ JobsIdle
    /\ ApiIdle
    /\ mpc = "start"
    /\ world \in [book : UNION {[1..n -> RevenueRows] : n \in 0..MaxContracts},
                  fx_rates_df : {{}, FxRows},
                  snapshot_date : {SnapshotDay}]
    /\ calc = [history |-> <<>>, geographic |-> Unset]

NextRevenue ==
    \/ SnapshotRevenue
    \/ SnapshotGeographic
    \/ NextMonth

SpecRevenue == InitRevenue /\ [][NextRevenue]_vars

(***************************************************************************)
(* Properties of the revenue and geographic snapshots (SpecRevenue).       *)
(***************************************************************************)

\* The months of the snapshots taken so far.
SnapshotMonths == {MonthOf(calc.history[m].snapshot_date) : m \in DOMAIN calc.history}

\* C21: the one-time fees of a contract are counted in a snapshot if and
\* only if the contract was created in the snapshot's calendar month, so
\* once the snapshot of its creation month is taken they are counted in
\* that snapshot and in no other.
C21_OneTimeFeesInCreationMonth ==
    mpc = "revenue" =>
      \A i \in DOMAIN world.book : \A m \in DOMAIN calc.history :
        i \in calc.history[m].one_time_ids
          <=> MonthOf(world.book[i].createdAt)
                = MonthOf(calc.history[m].snapshot_date)

\* The contracts whose revenue is summed into the row of country c.
SummedInto(c) == calc.geographic[c].revenue_contracts

\* C29: the count on a country's mrr_by_country and arr_by_country rows is
\* the number of distinct contracts whose revenue the row's value sums.
C29_CountIsDistinctContracts ==
    mpc = "geographic" =>
      \A c \in all_countries :
        calc.geographic[c].count = Cardinality(SummedInto(c))

LastSnapshot == calc.history[Len(calc.history)]

RECURSIVE SumCountries(_, _)
SumCountries(f, S) ==
    IF S = {} THEN 0
    ELSE LET c == CHOOSE x \in S : TRUE
         IN f[c].value_aud + SumCountries(f, S \ {c})

\* C30: the revenue_by_country values of a snapshot sum to its total_mrr.
C30_CountriesSumToTotal ==
    mpc = "revenue" =>
      SumCountries(LastSnapshot.revenue_by_country, all_countries)
          = LastSnapshot.revenue_breakdown.total_mrr

(***************************************************************************)
(* The top customers by ARR: the ranking of snapshot-customers.py and the  *)
(* endpoint /top-customers of routers/customers.py that reads it back.     *)
(***************************************************************************)

MaxCompanies == 3
MaxLimit == 3

\* head(10) of the job, scaled to 2 so that the truncation happens within
\* MaxCompanies.
TopCustomersHead == 2

\* Top customers by ARR: sort_values(by='total_arr', ascending=False),
\* head, rank = idx + 1.  The sort is not stable: tied companies come in
\* any order.
TopCustomersJob ==
    /\ mpc = "start"
    /\ LET company_metrics == world.company_metrics
           n == Cardinality(DOMAIN company_metrics)
           k == IF n < TopCustomersHead THEN n ELSE TopCustomersHead
       IN \E sorted \in [1..n -> DOMAIN company_metrics] :
            /\ \A i, j \in 1..n : i # j => sorted[i] # sorted[j]
            /\ \A i, j \in 1..n :
                 i < j => company_metrics[sorted[i]] >= company_metrics[sorted[j]]
            /\ calc' = [calc EXCEPT !.top_customers =
                 [idx \in 1..k |->
                    [metric_type |-> "top_customer_by_arr",
                     id |-> sorted[idx],
                     value_aud |-> company_metrics[sorted[idx]],
                     rank |-> idx]]]
    /\ mpc' = "snapshot"
    /\ UNCHANGED <<world, jvars, wvars, avars>>

\* top_customers(limit): the top_customer_by_arr rows of the latest
\* snapshot, ORDER BY rank ASC LIMIT limit.
ApiTopCustomers ==
    /\ mpc = "snapshot"
    /\ \E limit \in 0..MaxLimit :
         LET rows == calc.top_customers
             k == IF Len(rows) < limit THEN Len(rows) ELSE limit
         IN calc' = [calc EXCEPT !.limit = limit,
                                 !.result_list = SubSeq(rows, 1, k)]
    /\ mpc' = "served"
    /\ UNCHANGED <<world, jvars, wvars, avars>>

\* company_metrics: the total_arr of each company with revenue contracts.
InitRanking ==
    /\ script = "direct"
    /\ dest = NoTable
    /\ JobsIdle
    /\ ApiIdle
    /\ mpc = "start"
    /\ world \in
         [company_metrics :
            UNION {[S -> 1..2] :
                     S \in {T \in SUBSET {"c1", "c2", "c3", "c4"} :
                               Cardinality(T) <= MaxCompanies}}]
    /\ calc = [top_customers |-> <<>>, limit |-> 0, result_list |-> <<>>]

NextRanking ==
    \/ TopCustomersJob
    \/ ApiTopCustomers

SpecRanking == InitRanking /\ [][NextRanking]_vars

(***************************************************************************)
(* Properties of the ranking (SpecRanking).                                *)
(***************************************************************************)

Candidates == DOMAIN world.company_metrics

Min(a, b) == IF a < b THEN a ELSE b

\* rows is the top n of the candidates: min(n, candidates) rows, ranks
\* 1..k in order, the metric non-increasing, nothing larger left out.
IsTopN(rows, n) ==
    /\ Len(rows) = Min(n, Cardinality(Candidates))
    /\ \A i \in DOMAIN rows :
         /\ rows[i].rank = i
         /\ rows[i].id \in Candidates
         /\ rows[i].value_aud = world.company_metrics[rows[i].id]
    /\ \A i, j \in DOMAIN rows :
         /\ i < j => rows[i].value_aud >= rows[j].value_aud
         /\ i # j => rows[i].id # rows[j].id
    /\ \A c \in Candidates \ {rows[i].id : i \in DOMAIN rows} :
         \A i \in DOMAIN rows : world.company_metrics[c] <= rows[i].value_aud

\* C22: the job's ranking is the top TopCustomersHead of the companies, and
\* the endpoint's answer to limit N is the top N.
C22_TopNRanking ==
    /\ mpc \in {"snapshot", "served"} =>
         IsTopN(calc.top_customers, TopCustomersHead)
    /\ mpc = "served" => IsTopN(calc.result_list, calc.limit)

(***************************************************************************)
(* Two invocations of the Snapshot Writer on the same destination and the  *)
(* same snapshot date, their warehouse steps interleaved.  The writer      *)
(* takes no lock and runs no transaction (snapshot_utils.py:46-193).       *)
(***************************************************************************)

Writers == {1, 2}

\* Each invocation computed its own one-row frame for the date d1.
WriterFrame(w) ==
    [kind |-> "ok", date |-> "d1", ver |-> IF w = 1 THEN "v1" ELSE "v2",
     n |-> 1]

\* One warehouse step of invocation w, from bigquery.Client() to the
\* return; clean records that no step of w has raised so far.
WriterStep(w) ==
    /\ mpc = "concurrent"
    /\ \E ok \in BOOLEAN :
         LET me == calc[w]
             f == WriterFrame(w)
             d == SnapshotDateOf(f)
             Go(s) == [calc EXCEPT
                         ![w].pc = IF ok THEN StepAfter(s, me.tableExists)
                                         ELSE "returned",
                         ![w].result = IF ~ok THEN "False"
                                       ELSE IF StepAfter(s, me.tableExists)
                                                 = "returned"
                                            THEN "True" ELSE "none",
                         ![w].clean = me.clean /\ ok]
             Swallow(s) == [calc EXCEPT
                              ![w].pc = StepAfter(s, me.tableExists),
                              ![w].clean = me.clean /\ ok]
         IN \/ /\ me.pc = "client"
               /\ calc' = [calc EXCEPT
                             ![w].pc = IF ok THEN "get_table" ELSE "returned",
                             ![w].result = IF ok THEN "none" ELSE "False",
                             ![w].clean = ok]
               /\ world' = world
            \/ /\ me.pc = "get_table"
               /\ ok \in GetTableOutcomes(world.dest)
               /\ calc' = [calc EXCEPT
                             ![w].pc = StepsOf(ok)[1],
                             ![w].tableExists = ok,
                             ![w].clean = me.clean /\ (ok = world.dest.exists)]
               /\ world' = world
            \/ /\ me.pc = "backup"
               /\ calc' = Swallow("backup")
               /\ world' = IF ok
                           THEN [world EXCEPT !.backup = BackupQuery(world.dest, d)]
                           ELSE world
            \/ /\ me.pc = "delete"
               /\ calc' = Swallow("delete")
               /\ world' = IF ok
                           THEN [world EXCEPT !.dest = DeleteQuery(world.dest, d)]
                           ELSE world
            \/ /\ me.pc = "append"
               /\ calc' = Go("append")
               /\ world' = IF ok
                           THEN [world EXCEPT
                                   !.dest = LoadAppend(world.dest, ToCsv(f))]
                           ELSE world
            \/ /\ me.pc = "load_temp"
               /\ calc' = Go("load_temp")
               /\ world' = IF ok
                           THEN [world EXCEPT !.temp[w] = LoadTemp(ToCsv(f))]
                           ELSE world
            \/ /\ me.pc = "create"
               /\ calc' = Go("create")
               /\ world' = IF ok
                           THEN [world EXCEPT
                                   !.dest = CreateOrReplace(world.temp[w])]
                           ELSE world
            \/ /\ me.pc = "drop_temp"
               /\ calc' = Go("drop_temp")
               /\ world' = IF ok THEN [world EXCEPT !.temp[w] = NoTable]
                                 ELSE world
    /\ UNCHANGED <<mpc, jvars, wvars, avars>>

\* Both invocations have passed the validation of their frames; the
\* destination is absent or holds what an earlier run wrote.
InitConcurrent ==
    /\ script = "direct"
    /\ dest = NoTable
    /\ JobsIdle
    /\ ApiIdle
    /\ mpc = "concurrent"
    /\ world \in [dest : InitTables, backup : {NoTable},
                  temp : {[w \in Writers |-> NoTable]}]
    /\ calc = [w \in Writers |->
                 [pc |-> "client", tableExists |-> FALSE, result |-> "none",
                  clean |-> TRUE]]

NextConcurrent == \E w \in Writers : WriterStep(w)

SpecConcurrent == InitConcurrent /\ [][NextConcurrent]_vars

(***************************************************************************)
(* Properties of concurrent invocations (SpecConcurrent).                  *)
(***************************************************************************)

BothReturnedTrue == \A w \in Writers : calc[w].result = "True"

\* No step of either invocation raised.
NoStepFailed == \A w \in Writers : calc[w].clean

\* C25: once both invocations have returned True, with every step of both
\* having succeeded, the destination holds the rows of one of the two
\* frames for the date, once.
C25_OneCopyAfterBoth ==
    (BothReturnedTrue /\ NoStepFailed) =>
      \E w \in Writers :
        RowsFor(world.dest.rows, "d1") = SeqToBag(FrameRows(WriterFrame(w)))

(***************************************************************************)
(* The frame a batch job hands to the writer (Spec).                       *)
(***************************************************************************)

\* Every warehouse step of the invocation succeeded and the existence
\* check told the truth.
WarehouseReachable ==
    /\ \A k \in 1..Len(opLog) : opLog[k][2]
    /\ tableExists = pre.dest.exists

\* C27: the frame a job hands to the writer has a snapshot_date column,
\* and a job whose queries succeeded and whose frame is non-empty, with the
\* warehouse reachable, persists its rows and exits 0.
C27_JobFrameAccepted ==
    (script \in WriterScripts /\ jpc \in {"in_writer", "exited"}
       /\ wpc # "idle") =>
      /\ HasSnapshotDate(frame)
      /\ (jpc = "exited" /\ ~dryRun /\ FrameLen(frame) > 0
            /\ WarehouseReachable) =>
           /\ exitCode = 0
           /\ RowsFor(dest.rows, D) = NewRows

(***************************************************************************)
(* The entrypoint of the container (entrypoint.py): it runs the script     *)
(* named by SCRIPT_NAME with SCRIPT_ARGS and passes its status on.         *)
(***************************************************************************)

\* The return code of a script by what happened in it.
ScriptReturnCode(s, outcome) ==
    CASE outcome = "ok" -> 0
      [] outcome = "query_failed" -> QueryFailed(s).exit
      [] outcome = "write_failed" ->
           IF s \in WriterScripts THEN WriterFailedExit(s)
           ELSE LoadFailedExit(s)

\* main up to subprocess.run: exit 1 when the file is missing or the
\* process cannot be started, else the script runs.  A write can fail only
\* in a run that writes.
EntrypointLaunch ==
    /\ mpc = "start"
    /\ IF world.SCRIPT_NAME \notin Scripts
       THEN /\ mpc' = "exited"
            /\ calc' = [calc EXCEPT !.exit = 1]
       ELSE \E outcome \in {"ok", "query_failed", "write_failed", "not_started"} :
            /\ outcome = "write_failed" =>
                 \/ world.SCRIPT_NAME \in AppendScripts
                 \/ /\ world.SCRIPT_NAME \in WriterScripts
                    /\ ~DryRunArg(world.SCRIPT_NAME, world.dry_run)
                    /\ ~(world.SCRIPT_NAME = "snapshot-customers" /\ world.dry_run)
                 \/ world.SCRIPT_NAME \in LocalTestScripts /\ ~LOCAL_TEST
            /\ IF outcome = "not_started"
               THEN /\ mpc' = "exited"
                    /\ calc' = [calc EXCEPT !.exit = 1]
               ELSE /\ mpc' = "running"
                    /\ calc' = [calc EXCEPT !.ran = 1, !.outcome = outcome]
    /\ UNCHANGED <<world, jvars, wvars, avars>>

\* subprocess.run returns or raises CalledProcessError: exit with the
\* script's return code.
EntrypointReturn ==
    /\ mpc = "running"
    /\ LET returncode == ScriptReturnCode(world.SCRIPT_NAME, calc.outcome)
       IN calc' = [calc EXCEPT !.returncode = returncode, !.exit = returncode]
    /\ mpc' = "exited"
    /\ UNCHANGED <<world, jvars, wvars, avars>>

InitEntrypoint ==
    /\ script = "direct"
    /\ dest = NoTable
    /\ JobsIdle
    /\ ApiIdle
    /\ mpc = "start"
    /\ world \in [SCRIPT_NAME : Scripts \cup {"missing"}, dry_run : BOOLEAN]
    /\ calc = [ran |-> 0, outcome |-> "none", returncode |-> 0, exit |-> -1]

NextEntrypoint ==
    \/ EntrypointLaunch
    \/ EntrypointReturn

SpecEntrypoint == InitEntrypoint /\ [][NextEntrypoint]_vars

\* C28: the entrypoint exits 0 only if the script exists, ran once and
\* returned 0; it exits 1 without a run when the file is missing; it passes
\* a non-zero return code on; and a failed write in the script ends in a
\* non-zero exit of the entrypoint.
C28_EntrypointStatus ==
    mpc = "exited" =>
      /\ calc.exit = 0 =>
           world.SCRIPT_NAME \in Scripts /\ calc.ran = 1 /\ calc.returncode = 0
      /\ world.SCRIPT_NAME \notin Scripts => calc.exit = 1 /\ calc.ran = 0
      /\ calc.returncode # 0 => calc.exit = calc.returncode
      /\ calc.outcome = "write_failed" => calc.exit # 0

(***************************************************************************)
(* The rows of the revenue job (snapshot_revenue.py main) and their way    *)
(* back through GET /revenue/latest (routers/revenue.py).  Every cell is   *)
(* None or a number written as a Ratio.                                    *)
(***************************************************************************)

MaxAmount == 2

Amounts == {Ratio(n, 1) : n \in 0..MaxAmount}

\* The rows of global_metrics that stand for the three shapes of a row:
\* a count alone, a value with or without a percentage, a percentage alone.
global_metrics(in) ==
    { [id |-> "total_active", count |-> in.total_active_subscriptions,
       value_aud |-> None, percentage |-> None],
      [id |-> "total_mrr", count |-> None,
       value_aud |-> in.total_mrr, percentage |-> Ratio(100, 1)],
      [id |-> "total_arr", count |-> None,
       value_aud |-> Ratio(12 * in.total_mrr.num, 1),
       percentage |-> Ratio(100, 1)],
      [id |-> "churn_rate", count |-> None,
       value_aud |-> None, percentage |-> in.churn_rate],
      [id |-> "avg_subscription_value", count |-> None,
       value_aud |-> in.avg_subscription_value, percentage |-> None] }

\* The final cleanup of the frame: count is coerced, its gaps are filled
\* with 0 and it is cast to int; value_aud and percentage keep their gaps.
cleanup(row, snapshot_date) ==
    [snapshot_date |-> snapshot_date, id |-> row.id,
     count |-> IF IsNumber(row.count) THEN row.count ELSE Zero,
     value_aud |-> row.value_aud, percentage |-> row.percentage]

\* key_map.get(row.id, row.id)
key_map(id) ==
    IF id = "total_active" THEN "total_active_subscriptions" ELSE id

\* The value the handler stores for a row: the first of count, value_aud
\* and percentage that is not NULL; nothing when all three are NULL.
row_value(row) ==
    IF IsNumber(row.count) THEN row.count
    ELSE IF IsNumber(row.value_aud) THEN row.value_aud
    ELSE IF IsNumber(row.percentage) THEN row.percentage
    ELSE None

\* snapshot_revenue.py main on a day of this or a later month: the rows
\* are built, cleaned and handed to the writer, which replaces the rows of
\* the date or fails and leaves the table alone.
RevenueJob ==
    /\ mpc \in {"start", "served"}
    /\ \E d \in {world.snapshot_date, world.snapshot_date + 3},
          in \in [total_active_subscriptions : Amounts,
                  total_mrr : Amounts,
                  churn_rate : {None, Zero, Ratio(1, 2)},
                  avg_subscription_value : {Ratio(1, 2)}],
          written \in BOOLEAN :
         /\ d <= SnapshotDay + 3 * (MaxMonths - 1)
         /\ world' = [world EXCEPT !.snapshot_date = d]
         /\ calc' = [calc EXCEPT
              !.global_metrics = global_metrics(in),
              !.written = IF written THEN d ELSE NaT,
              !.table = IF written
                        THEN {r \in calc.table : r.snapshot_date # d}
                             \cup {cleanup(row, d) : row \in global_metrics(in)}
                        ELSE calc.table,
              !.response = Unset]
    /\ mpc' = "written"
    /\ UNCHANGED <<jvars, wvars, avars>>

\* revenue_latest: the rows of the greatest snapshot_date as one dict.
RevenueLatest ==
    /\ mpc = "written"
    /\ LET rows == {r \in calc.table :
                      \A o \in calc.table : o.snapshot_date <= r.snapshot_date}
       IN calc' = [calc EXCEPT !.response =
            IF rows = {} THEN [error |-> "No data found"]
            ELSE [snapshot_date |-> (CHOOSE r \in rows : TRUE).snapshot_date,
                  result_dict |->
                     [key \in {key_map(r.id) : r \in {x \in rows :
                                                 IsNumber(row_value(x))}} |->
                        row_value(CHOOSE r \in rows : key_map(r.id) = key)]]]
    /\ mpc' = "served"
    /\ UNCHANGED <<world, jvars, wvars, avars>>

InitRoundTrip ==
    /\ script = "direct"
    /\ dest = NoTable
    /\ JobsIdle
    /\ ApiIdle
    /\ mpc = "start"
    /\ world = [snapshot_date |-> SnapshotDay]
    /\ calc = [global_metrics |-> {}, written |-> NaT, table |-> {},
               response |-> Unset]

NextRoundTrip ==
    \/ RevenueJob
    \/ RevenueLatest

SpecRoundTrip == InitRoundTrip /\ [][NextRoundTrip]_vars

\* The latest snapshot is the one the job has just written and the API has
\* answered with it.
ServedOwnSnapshot ==
    /\ mpc = "served"
    /\ calc.written # NaT
    /\ "result_dict" \in DOMAIN calc.response
    /\ calc.response.snapshot_date = calc.written

\* C26: for every row the revenue job builds with a value or a percentage
\* and no count, GET /revenue/latest on that snapshot returns that value
\* (else that percentage) under the mapped key.
C26_RoundTrip ==
    ServedOwnSnapshot =>
      \A row \in calc.global_metrics :
         (~IsNumber(row.count)
            /\ (IsNumber(row.value_aud) \/ IsNumber(row.percentage))) =>
           /\ key_map(row.id) \in DOMAIN calc.response.result_dict
           /\ RatEq(calc.response.result_dict[key_map(row.id)],
                    IF IsNumber(row.value_aud) THEN row.value_aud
                    ELSE row.percentage)

====
